---- MODULE Spec2Model ----
(***************************************************************************)
(* Galactic Defender (src/MiniGames3.py): the run loop of class Game, its  *)
(* screen state machine, the play tick (input_play, update_physics,        *)
(* update_powerups, update_wave_and_spawning, death check), the shop and   *)
(* the wave scheduler.                                                     *)
(*                                                                         *)
(* Units.  Time is counted in milliseconds (1.0 s of the source is 1000),  *)
(* positions in whole pixels, velocities in pixels per second, an enemy's  *)
(* hp in thousandths of a hit point (so that the laser's dmg*dt*8 is       *)
(* exact), the player's hp in hit points, difficulty in hundredths.  A     *)
(* float product that is not a whole number of pixels is truncated toward  *)
(* zero.  A random number is an integer r in 0..RandRes-1 standing for the *)
(* float r/RandRes; the numbers a tick draws are read in order from a      *)
(* tape that is chosen for that tick.                                      *)
(* Cosmetic state (particles, colours, the draw list) and the optional     *)
(* joystick are left out: no step reads them back.                         *)
(***************************************************************************)
EXTENDS Integers, Sequences, FiniteSets, TLC

\* ---------------------------------------------------------------- CONFIG
WIDTH == 1000
HEIGHT == 650
PLAYER_MAX_HP == 120
PLAYER_BASE_SPEED == 300
PLAYER_DASH_SPEED == 700
PLAYER_DASH_COOLDOWN == 1000
BULLET_SPEED == 700
LASER_DURATION == 250
PLAYER_R == 16
BOMB_RADIUS == 180
BOMB_INTERVAL == 500
CONTACT_DAMAGE == 18
FIRST_INTERLUDE == 4000
NEXT_INTERLUDE == 6000
BUFF_TIME == 6000
BOMB_CAP == 6
PICKUP_R == 12

\* ---------------------------------------------------------------- bounds
\* Frames (iterations of a loop that lets wall-clock time pass) per behaviour.
MaxFrames == 4
\* Resolution of a random number: random() is r/RandRes with r in 0..RandRes-1.
RandRes == 100
\* Wall-clock reading when run() starts (time.time() is an epoch time, far
\* more than BOMB_INTERVAL after the default last_bomb of 0).
StartTime == 100000

\* ------------------------------------------------------------------ UTIL
Max(a, b) == IF a >= b THEN a ELSE b
Min(a, b) == IF a <= b THEN a ELSE b
Abs(a) == IF a >= 0 THEN a ELSE -a

clamp(v, lo, hi) == Max(lo, Min(hi, v))

\* a/b truncated toward zero (b > 0): the whole-pixel part of a float quotient.
Quot(a, b) == IF a >= 0 THEN a \div b ELSE -((-a) \div b)

\* v pixels per second over dt milliseconds, in whole pixels.
Travel(v, dt) == Quot(v * dt, 1000)

RECURSIVE IsqrtFrom(_, _, _)
IsqrtFrom(n, lo, hi) ==
    IF lo >= hi THEN lo
    ELSE LET mid == (lo + hi + 1) \div 2
         IN  IF mid * mid <= n THEN IsqrtFrom(n, mid, hi)
             ELSE IsqrtFrom(n, lo, mid - 1)

\* math.hypot(dx, dy), rounded down to a whole pixel.
hypot(dx, dy) == IsqrtFrom(dx * dx + dy * dy, 0, 46340)

\* 1000 * sin(deg degrees), deg an integer: Bhaskara's quotient on 0..180,
\* odd and periodic elsewhere.
SinPos(d) == (4000 * d * (180 - d)) \div (40500 - d * (180 - d))
SinDeg(deg) ==
    LET d == deg % 360
    IN  IF d <= 180 THEN SinPos(d) ELSE -SinPos(d - 180)
CosDeg(deg) == SinDeg(deg + 90)

\* dict.get(key, 0) on a mapping from names to levels.
Get(m, k) == IF k \in DOMAIN m THEN m[k] ELSE 0
Put(m, k, v) == [x \in (DOMAIN m) \cup {k} |-> IF x = k THEN v ELSE m[x]]
EmptyMap == [x \in {} |-> 0]

\* ---------------------------------------------------------------- random
\* The r-th number of the tick's tape; the tape is read cyclically.
Draw(tp, c) == tp[(c % Len(tp)) + 1]
\* random.random() < pct/100
RandomLess(r, pct) == r * 100 < pct * RandRes
\* random.choice(seq)
Choice(seq, r) == seq[1 + ((r * Len(seq)) \div RandRes)]
\* random.randint(a, b)
RandInt(a, b, r) == a + ((r * (b - a + 1)) \div RandRes)
\* random.uniform(a, b)
Uniform(a, b, r) == a + (((b - a) * r) \div RandRes)
\* random.choices(['chaser','shooter','zig'], weights=[0.5,0.25,0.25])[0]
WeightedKind(r) ==
    IF RandomLess(r, 50) THEN "chaser"
    ELSE IF RandomLess(r, 75) THEN "shooter"
    ELSE "zig"

\* -------------------------------------------------------------- ENTITIES
Weapons == <<"single", "spread", "laser">>
PowerupKinds == <<"heal", "rapid", "shield", "bomb", "coin">>
Sides == <<"top", "bottom", "left", "right">>

\* Bullet(x, y, vx, vy, owner, dmg, r)
Bullet(x, y, vx, vy, owner, dmg, r) ==
    [x |-> x, y |-> y, vx |-> vx, vy |-> vy, owner |-> owner, dmg |-> dmg, r |-> r]

\* LaserBeam(x, y, dx, dy, life, dmg)
LaserBeam(x, y, dx, dy, life, dmg) ==
    [x |-> x, y |-> y, dx |-> dx, dy |-> dy, life |-> life, t |-> 0, dmg |-> dmg]

\* Player(x, y); cool_r is the random number of uniform(0.6, 1.8) in Enemy.
Player(x, y) ==
    [x |-> x, y |-> y, hp |-> PLAYER_MAX_HP, maxhp |-> PLAYER_MAX_HP,
     speed |-> PLAYER_BASE_SPEED, dash_cd |-> 0, coins |-> 0, score |-> 0,
     weapon_index |-> 0, bullets_cool |-> 0, rapid |-> 0, shield |-> 0,
     bombs |-> 2, upgrades |-> [k \in {"hp", "speed", "damage"} |-> 0]]

Enemy(x, y, kind, level, cool_r) ==
    LET basehp == (20 + level * 6) * 1000
    IN  [x |-> x, y |-> y, kind |-> kind, level |-> level,
         hp |-> IF kind # "boss" THEN basehp ELSE basehp * 6,
         r |-> IF kind # "boss" THEN 12 ELSE 36,
         speed |-> IF kind # "boss" THEN 90 + level * 8 ELSE 45,
         t |-> 0,
         cool |-> Uniform(600, 1800, cool_r)]

\* ----------------------------------------------------------------- state
VARIABLES
    state,              \* Game.state: the screen
    running,            \* Game.running
    player,             \* Game.player
    enemies,            \* Game.enemies (a list, in list order)
    bullets,            \* Game.bullets
    lasers,             \* Game.lasers
    powerups,           \* Game.powerups
    wave,               \* Game.wave
    wave_state,         \* Game.wave_state
    interlude_time,     \* Game.interlude_time
    spawn_timer,        \* Game.spawn_timer
    difficulty,         \* Game.difficulty, in hundredths
    hiscore,            \* Game.hiscore
    persist_upgrades,   \* Game.persist_upgrades
    last_bomb,          \* Game.last_bomb (0 while the attribute is unset)
    now,                \* the wall clock, time.time()
    last_time,          \* run()'s last_time
    dt,                 \* run()'s dt
    keys,               \* the keys held down during this iteration
    tape,               \* the random numbers this iteration can draw
    cur,                \* how many of them have been drawn
    sel,                \* shop_loop's sel
    pc,                 \* where control is in run() and the screens it calls
    frames,             \* loop iterations so far that let time pass
    audit,              \* history: enemies removed with hp <= 0, and how
                        \* many of those removals granted a reward; the
                        \* screen whose body this iteration ran, and how
                        \* much of dt passed outside the play screen
    file,               \* the text of the save file, NoFile while there is none
    sounds              \* Game.have_sound and the names in Game.sounds whose
                        \* tone() returned a Sound rather than None

run_vars == <<player, enemies, bullets, lasers, wave, wave_state,
              interlude_time, spawn_timer, difficulty>>
meta_vars == <<hiscore, persist_upgrades>>
clock_vars == <<now, last_time, dt, frames>>
tick_vars == <<keys, tape, cur>>
vars == <<state, running, player, enemies, bullets, lasers, powerups, wave,
          wave_state, interlude_time, spawn_timer, difficulty, hiscore,
          persist_upgrades, last_bomb, now, last_time, dt, keys, tape, cur,
          sel, pc, frames, audit, file, sounds>>

Screens == {"menu", "play", "pause", "shop", "gameover"}
Events == {"QUIT", "K_p", "K_ESCAPE", "K_s", "K_m", "K_RETURN", "K_q", "K_h",
           "K_UP", "K_DOWN", "K_z"}

\* ------------------------------------------------------------------ audio
\* Game.init_audio: have_sound is what try_mixer returned; made holds the
\* names for which tone() returned a Sound.  Without a mixer self.sounds is
\* None; with one it is a dict of all four names, each a Sound or None.
SoundNames == {"shoot", "hit", "expl", "pickup"}
AudioOutcomes ==
    { [have_sound |-> FALSE, made |-> {}] }
    \cup { [have_sound |-> TRUE, made |-> m] : m \in SUBSET SoundNames }
WorkingAudio == [have_sound |-> TRUE, made |-> SoundNames]

\* What load_json returns: the default when there is no readable save file,
\* or the record an earlier session saved.
SaveData ==
    { [hiscore |-> 0, upgrades |-> EmptyMap],
      [hiscore |-> 20, upgrades |-> [k \in {"hp", "speed", "damage"} |->
                                        IF k = "speed" THEN 0 ELSE 1]] }

\* ------------------------------------------------------------ save file
\* The save file is a sequence of tokens: braces, colons, commas, key names,
\* a minus sign and decimal digits.
NoFile == <<>>
DigitChars == <<"0", "1", "2", "3", "4", "5", "6", "7", "8", "9">>
DigitValue(c) == (CHOOSE i \in 1..10 : DigitChars[i] = c) - 1
IsDigit(c) == \E i \in 1..10 : DigitChars[i] = c

\* json.dump of an integer.
RECURSIVE DumpNat(_)
DumpNat(n) ==
    IF n < 10 THEN <<DigitChars[n + 1]>>
    ELSE Append(DumpNat(n \div 10), DigitChars[(n % 10) + 1])
DumpInt(n) == IF n < 0 THEN <<"-">> \o DumpNat(-n) ELSE DumpNat(n)

\* json.dump of a mapping from names to integers.  A dict is written in its
\* insertion order; the order does not matter to the dict that json.load
\* builds, so the names are written in one fixed order here.
UpgradeKeys == <<"hp", "speed", "damage">>
RECURSIVE DumpMembers(_, _, _)
DumpMembers(m, i, first) ==
    IF i > Len(UpgradeKeys) THEN <<>>
    ELSE IF UpgradeKeys[i] \in DOMAIN m
         THEN (IF first THEN <<>> ELSE <<",">>)
              \o <<UpgradeKeys[i], ":">> \o DumpInt(m[UpgradeKeys[i]])
              \o DumpMembers(m, i + 1, FALSE)
         ELSE DumpMembers(m, i + 1, first)
DumpMap(m) == <<"{">> \o DumpMembers(m, 1, TRUE) \o <<"}">>

\* json.dump({"hiscore": h, "upgrades": u})
json_dump(h, u) ==
    <<"{", "hiscore", ":">> \o DumpInt(h) \o <<",", "upgrades", ":">>
    \o DumpMap(u) \o <<"}">>

\* json.load: an integer that starts at token i, as [val, next].
RECURSIVE LoadNat(_, _, _)
LoadNat(txt, i, acc) ==
    IF i <= Len(txt) /\ IsDigit(txt[i])
    THEN LoadNat(txt, i + 1, acc * 10 + DigitValue(txt[i]))
    ELSE [val |-> acc, next |-> i]
Negated(n) == [val |-> -(n.val), next |-> n.next]
LoadInt(txt, i) ==
    IF txt[i] = "-" THEN Negated(LoadNat(txt, i + 1, 0))
    ELSE LoadNat(txt, i, 0)

\* json.load: the members of an object of integers, from token i (after the
\* brace) to the closing brace, as [val, next].
RECURSIVE LoadMap(_, _, _)
LoadMapMember(txt, i, acc, n) == LoadMap(txt, n.next, Put(acc, txt[i], n.val))
LoadMap(txt, i, acc) ==
    IF txt[i] = "}" THEN [val |-> acc, next |-> i + 1]
    ELSE IF txt[i] = "," THEN LoadMap(txt, i + 1, acc)
    ELSE LoadMapMember(txt, i, acc, LoadInt(txt, i + 2))

\* json.load of the whole file: a mapping from the top-level names to an
\* integer or to a mapping of integers.
RECURSIVE LoadTop(_, _, _)
LoadTopMember(txt, i, acc, v) == LoadTop(txt, v.next, Put(acc, txt[i], v.val))
LoadTop(txt, i, acc) ==
    IF txt[i] = "}" THEN acc
    ELSE IF txt[i] = "," THEN LoadTop(txt, i + 1, acc)
    ELSE LoadTopMember(txt, i, acc,
            IF txt[i + 2] = "{" THEN LoadMap(txt, i + 3, EmptyMap)
            ELSE LoadInt(txt, i + 2))
json_load(txt) == LoadTop(txt, 2, EmptyMap)

\* load_json(SAVE_FILE, {"hiscore": 0, "upgrades": {}})
load_json(f) ==
    IF f = NoFile
    THEN [k \in {"hiscore", "upgrades"} |-> IF k = "hiscore" THEN 0 ELSE EmptyMap]
    ELSE json_load(f)

\* Game.load_save: data.get("hiscore", 0) and data.get("upgrades", {...}).
LoadedHiscore(data) == IF "hiscore" \in DOMAIN data THEN data["hiscore"] ELSE 0
\* load_save with the three-key default also standing in for an empty mapping.
LoadedUpgrades_DefaultWhenEmpty(data) ==
    IF "upgrades" \in DOMAIN data /\ data["upgrades"] # EmptyMap
    THEN data["upgrades"]
    ELSE [k \in {"hp", "speed", "damage"} |-> 0]
LoadedUpgrades(data) ==
    IF "upgrades" \in DOMAIN data THEN data["upgrades"]
    ELSE [k \in {"hp", "speed", "damage"} |-> 0]

\* Game.save
save == file' = json_dump(hiscore, persist_upgrades)

\* The save file at the start of a session: none at the first start, or the
\* file an earlier session wrote.
SaveFiles ==
    { IF d.upgrades = EmptyMap THEN NoFile ELSE json_dump(d.hiscore, d.upgrades) :
        d \in SaveData }

\* Game.reset_run, as the values it assigns from the persisted upgrades.
ResetPlayer(pu) ==
    [Player(WIDTH \div 2, (HEIGHT * 7) \div 10) EXCEPT
        !.maxhp = PLAYER_MAX_HP + Get(pu, "hp") * 20,
        !.hp = PLAYER_MAX_HP + Get(pu, "hp") * 20,
        !.speed = PLAYER_BASE_SPEED + Get(pu, "speed") * 30]

reset_run ==
    /\ player' = ResetPlayer(persist_upgrades)
    /\ enemies' = <<>>
    /\ bullets' = <<>>
    /\ lasers' = <<>>
    /\ wave' = 0
    /\ spawn_timer' = 0
    /\ wave_state' = "interlude"
    /\ interlude_time' = FIRST_INTERLUDE
    /\ difficulty' = 100

\* Game.__init__ followed by the first lines of Game.run.
Init ==
    /\ \E f \in SaveFiles :
          /\ file = f
          /\ hiscore = LoadedHiscore(load_json(f))
          /\ persist_upgrades = LoadedUpgrades(load_json(f))
          /\ player = ResetPlayer(LoadedUpgrades(load_json(f)))
    /\ state = "menu"
    /\ running = TRUE
    /\ enemies = <<>>
    /\ bullets = <<>>
    /\ lasers = <<>>
    /\ powerups = <<>>
    /\ wave = 0
    /\ spawn_timer = 0
    /\ wave_state = "interlude"
    /\ interlude_time = FIRST_INTERLUDE
    /\ difficulty = 100
    /\ last_bomb = 0
    /\ now = StartTime
    /\ last_time = StartTime
    /\ dt = 0
    /\ keys = {}
    /\ tape = <<0>>
    /\ cur = 0
    /\ sel = 0
    /\ pc = "events"
    /\ frames = 0
    /\ audit = [dead_removed |-> 0, rewarded |-> 0, screen |-> "menu",
                dt_idle |-> 0]
    /\ sounds = WorkingAudio

\* ------------------------------------------------------------ run(): loop
\* The S branch of run() without its test for the play screen.
RunEventState_ShopFromAnywhere(e, st, ws) ==
    LET s1 == IF e \in {"K_p", "K_ESCAPE"}
              THEN (IF st = "play" THEN "pause"
                    ELSE IF st = "pause" THEN "play" ELSE st)
              ELSE st
        s2 == IF e = "K_s" /\ ws = "interlude" THEN "shop" ELSE s1
        s3 == IF e = "K_m" /\ s2 # "menu" THEN "menu" ELSE s2
    IN  s3

\* The S branch of run() without its test for the interlude phase.
RunEventState_ShopAnyPhase(e, st, ws) ==
    LET s1 == IF e \in {"K_p", "K_ESCAPE"}
              THEN (IF st = "play" THEN "pause"
                    ELSE IF st = "pause" THEN "play" ELSE st)
              ELSE st
        s2 == IF e = "K_s" /\ s1 = "play" THEN "shop" ELSE s1
        s3 == IF e = "K_m" /\ s2 # "menu" THEN "menu" ELSE s2
    IN  s3

\* The screen after run()'s KEYDOWN branch has handled event e in screen st
\* with wave phase ws.
RunEventState(e, st, ws) ==
    LET s1 == IF e \in {"K_p", "K_ESCAPE"}
              THEN (IF st = "play" THEN "pause"
                    ELSE IF st = "pause" THEN "play" ELSE st)
              ELSE st
        s2 == IF e = "K_s" /\ ws = "interlude" /\ s1 = "play"
              THEN "shop" ELSE s1
        s3 == IF e = "K_m" /\ s2 # "menu" THEN "menu" ELSE s2
    IN  s3

\* One event of the batch run() polls at the top of an iteration.
RunEvent(e) ==
    /\ pc = "events"
    /\ running' = IF e = "QUIT" THEN FALSE ELSE running
    /\ state' = RunEventState(e, state, wave_state)
    /\ UNCHANGED <<run_vars, meta_vars, clock_vars, tick_vars, powerups,
                   last_bomb, sel, pc, audit, file, sounds>>

\* The if/elif chain on self.state after the batch: which screen's body runs.
Dispatch ==
    /\ pc = "events"
    /\ pc' = CASE state = "menu" -> "menu"
               [] state = "play" -> "input"
               [] state = "pause" -> "cap"
               [] state = "shop" -> "shop"
               [] state = "gameover" -> "gameover"
    /\ sel' = IF state = "shop" THEN 0 ELSE sel
    /\ audit' = [audit EXCEPT !.screen = state]
    /\ UNCHANGED <<state, running, run_vars, meta_vars, clock_vars, tick_vars,
                   powerups, last_bomb, file, sounds>>

\* clock.tick(FPS), the loop test, and the next iteration's clock reading;
\* or, when running is false, save() and exit.  in is what the world does
\* meanwhile: in.dt milliseconds pass, in.keys are the keys held from then
\* on, in.tape the numbers the random source will yield.
ClockTick(in) ==
    /\ pc = "cap"
    /\ IF running
       THEN /\ frames < MaxFrames
            /\ frames' = frames + 1
            /\ now' = now + in.dt
            /\ dt' = (now + in.dt) - last_time
            /\ last_time' = now + in.dt
            /\ keys' = in.keys
            /\ tape' = in.tape
            /\ cur' = 0
            /\ pc' = "events"
            /\ audit' = [audit EXCEPT !.dt_idle =
                            (now - last_time)
                            + (IF audit.screen # "play" THEN in.dt ELSE 0)]
            /\ UNCHANGED file
       ELSE /\ save
            /\ pc' = "exit"
            /\ UNCHANGED <<clock_vars, tick_vars, audit>>
    /\ UNCHANGED <<state, running, run_vars, meta_vars, powerups, last_bomb,
                   sel, sounds>>

\* ---------------------------------------------------------------- screens
start_game ==
    /\ reset_run
    /\ state' = "play"

\* One event of the batch menu_loop polls.
MenuEvent(e) ==
    /\ pc = "menu"
    /\ CASE e = "K_RETURN" ->
              /\ start_game
              /\ UNCHANGED <<running, pc>>
         [] e = "K_q" ->
              /\ running' = FALSE
              /\ UNCHANGED <<state, run_vars, pc>>
         [] e = "K_h" ->
              /\ pc' = "howto"
              /\ UNCHANGED <<state, running, run_vars>>
         [] OTHER -> UNCHANGED <<state, running, run_vars, pc>>
    /\ UNCHANGED <<meta_vars, clock_vars, tick_vars, powerups, last_bomb, sel, audit, file, sounds>>

MenuDone ==
    /\ pc = "menu"
    /\ pc' = "cap"
    /\ UNCHANGED <<state, running, run_vars, meta_vars, clock_vars, tick_vars,
                   powerups, last_bomb, sel, audit, file, sounds>>

\* howto_screen: blocks until a key or QUIT arrives; d is the time it waited.
HowtoEvent(e, d) ==
    /\ pc = "howto"
    /\ frames < MaxFrames
    /\ frames' = frames + 1
    /\ now' = now + d
    /\ running' = IF e = "QUIT" THEN FALSE ELSE running
    /\ pc' = "menu"
    /\ UNCHANGED <<state, run_vars, meta_vars, last_time, dt, tick_vars,
                   powerups, last_bomb, sel, audit, file, sounds>>

\* One event of the batch gameover_loop polls.
GameoverEvent(e) ==
    /\ pc = "gameover"
    /\ CASE e = "K_RETURN" ->
              /\ state' = "menu"
              /\ pc' = pc
              /\ UNCHANGED file
         [] e = "QUIT" ->
              /\ save
              /\ pc' = "exit"
              /\ state' = state
         [] OTHER -> UNCHANGED <<state, pc, file>>
    /\ UNCHANGED <<running, run_vars, meta_vars, clock_vars, tick_vars,
                   powerups, last_bomb, sel, audit, sounds>>

GameoverDone ==
    /\ pc = "gameover"
    /\ pc' = "cap"
    /\ UNCHANGED <<state, running, run_vars, meta_vars, clock_vars, tick_vars,
                   powerups, last_bomb, sel, audit, file, sounds>>

\* pause: draw and pause_screen change nothing; the body falls through.

\* ------------------------------------------------------------------- shop
\* opts of shop_loop: <<key, cost>>
ShopOpts == << <<"hp", 8>>, <<"speed", 10>>, <<"damage", 12>>,
               <<"bomb", 6>>, <<"heal", 5>> >>

\* A purchase that never looks at the coins.
CanAfford_Always(p, cost) == TRUE

\* The test that guards a purchase.
CanAfford(p, cost) == p.coins >= cost

\* A shop that also keeps a persisted level for the bombs it sells.
IsPermanent_WithBomb(key) == key \in {"hp", "speed", "damage", "bomb"}

\* The options that are permanent upgrades.
IsPermanent(key) == key \in {"hp", "speed", "damage"}

\* The K_RETURN branch of shop_loop: the purchase of option opt.
Purchase(opt) ==
    LET key == opt[1]
        cost == opt[2]
    IN  IF CanAfford(player, cost)
        THEN LET p1 == [player EXCEPT !.coins = @ - cost]
             IN  CASE IsPermanent(key) ->
                       /\ persist_upgrades' =
                             Put(persist_upgrades, key, Get(persist_upgrades, key) + 1)
                       /\ player' =
                             LET p2 == [p1 EXCEPT !.upgrades =
                                           Put(@, key, Get(@, key) + 1)]
                             IN  IF key = "hp"
                                 THEN [p2 EXCEPT !.maxhp = @ + 20,
                                                 !.hp = p2.maxhp + 20]
                                 ELSE p2
                   [] key = "bomb" ->
                       /\ player' = [p1 EXCEPT !.bombs = @ + 1]
                       /\ UNCHANGED persist_upgrades
                   [] key = "heal" ->
                       /\ player' = [p1 EXCEPT !.hp = Min(p1.maxhp, @ + 40)]
                       /\ UNCHANGED persist_upgrades
        ELSE UNCHANGED <<player, persist_upgrades>>

\* One event of a batch shop_loop polls.  The batch is read to its end even
\* after K_ESCAPE has set the state back to play.
ShopEvent(e) ==
    /\ pc = "shop"
    /\ CASE e = "K_UP" ->
              /\ sel' = (sel - 1) % Len(ShopOpts)
              /\ UNCHANGED <<player, persist_upgrades, state, pc, file>>
         [] e = "K_DOWN" ->
              /\ sel' = (sel + 1) % Len(ShopOpts)
              /\ UNCHANGED <<player, persist_upgrades, state, pc, file>>
         [] e = "K_RETURN" ->
              /\ Purchase(ShopOpts[sel + 1])
              /\ UNCHANGED <<sel, state, pc, file>>
         [] e = "K_ESCAPE" ->
              /\ state' = "play"
              /\ UNCHANGED <<player, persist_upgrades, sel, pc, file>>
         [] e = "QUIT" ->
              /\ save
              /\ pc' = "exit"
              /\ UNCHANGED <<player, persist_upgrades, sel, state>>
         [] OTHER -> UNCHANGED <<player, persist_upgrades, sel, state, pc, file>>
    /\ UNCHANGED <<running, enemies, bullets, lasers, wave, wave_state,
                   interlude_time, spawn_timer, difficulty, hiscore,
                   clock_vars, tick_vars, powerups, last_bomb, audit, sounds>>

\* The end of one pass of shop_loop's while loop: the loop goes round again
\* (d is how long the pass took: the player is reading the menu) or, when
\* the state is no longer shop, returns to run().
ShopPass(d) ==
    /\ pc = "shop"
    /\ IF state = "shop"
       THEN /\ frames < MaxFrames
            /\ frames' = frames + 1
            /\ now' = now + d
            /\ pc' = "shop"
            /\ sel' = sel
       ELSE /\ pc' = "cap"
            /\ sel' = 0
            /\ UNCHANGED <<frames, now>>
    /\ UNCHANGED <<state, running, run_vars, meta_vars, last_time, dt,
                   tick_vars, powerups, last_bomb, audit, file, sounds>>

\* ------------------------------------------------------------- input_play
KeyNames == {"left", "right", "up", "down", "dash", "shoot", "q", "e", "bomb"}

\* The movement direction, each component in thousandths: the sum of the
\* pressed directions divided by its length (0.707 on a diagonal).
MoveDir(k) ==
    LET mx == (IF "right" \in k THEN 1 ELSE 0) - (IF "left" \in k THEN 1 ELSE 0)
        my == (IF "down" \in k THEN 1 ELSE 0) - (IF "up" \in k THEN 1 ELSE 0)
        unit == IF mx # 0 /\ my # 0 THEN 707 ELSE 1000
    IN  <<mx * unit, my * unit>>

\* Player.switch_weapon
switch_weapon(p, dirn) ==
    [p EXCEPT !.weapon_index = (@ + dirn) % Len(Weapons)]

\* A blast that stops short of the radius itself.
InBombRange_Strict(e, p) ==
    (e.x - p.x) * (e.x - p.x) + (e.y - p.y) * (e.y - p.y)
        < BOMB_RADIUS * BOMB_RADIUS

\* The test of bomb_explode: e lies within the bomb radius of the player.
InBombRange(e, p) ==
    (e.x - p.x) * (e.x - p.x) + (e.y - p.y) * (e.y - p.y)
        <= BOMB_RADIUS * BOMB_RADIUS

\* Game.bomb_explode: the enemies left, and the player with score and coins.
BombSurvivors(es, p) == SelectSeq(es, LAMBDA e : ~InBombRange(e, p))
BombKilled(es, p) == Len(es) - Len(BombSurvivors(es, p))
BombPlayer(es, p) ==
    LET killed == BombKilled(es, p)
    IN  [p EXCEPT !.score = @ + 15 * killed,
                  !.coins = IF killed > 0 THEN @ + killed * 2 ELSE @]

\* A bomb branch that ignores the time of the last use.
BombFires_NoInterval(k, p, t, lb) == "bomb" \in k /\ p.bombs > 0

\* How many of the enemies the blast removes had hp <= 0 already.
DeadInRange(es, p) ==
    Len(SelectSeq(es, LAMBDA e : InBombRange(e, p) /\ e.hp <= 0))

\* The bomb branch of input_play is taken.
BombFires(k, p, t, lb) ==
    "bomb" \in k /\ p.bombs > 0 /\ t - lb > BOMB_INTERVAL

\* The cooldown a weapon sets, shortened to 0.6 of it under the rapid buff.
FireRate(w, p) ==
    LET base == CASE w = "single" -> 160
                  [] w = "spread" -> 260
                  [] w = "laser" -> 380
    IN  IF p.rapid > 0 THEN (base * 6) \div 10 ELSE base

\* The bullets one shot of weapon w adds.
ShotBullets(w, p) ==
    CASE w = "single" ->
           << Bullet(p.x, p.y - 18, 0, -BULLET_SPEED, "player",
                     12 + Get(p.upgrades, "damage") * 2, 4) >>
      [] w = "spread" ->
           [i \in 1..3 |->
              LET a == (i - 2) * 18
              IN  Bullet(p.x, p.y - 18,
                         Quot(CosDeg(a - 90) * BULLET_SPEED, 1000),
                         Quot(SinDeg(a - 90) * BULLET_SPEED, 1000),
                         "player", 10 + Get(p.upgrades, "damage"), 4)]
      [] w = "laser" -> <<>>

\* The beams one shot of weapon w adds.
ShotLasers(w, p) ==
    IF w = "laser"
    THEN << LaserBeam(p.x, p.y - 10, 0, -1, LASER_DURATION,
                      6 + Get(p.upgrades, "damage")) >>
    ELSE <<>>

\* Whether the sound call that ends a shot of weapon w raises: the single
\* and spread branches call self.sounds['shoot'].play() whenever self.sounds
\* is a dict, the laser branch and the bomb test the entry first.  The
\* exception is caught nowhere, so it ends the program.
ShootSoundRaises(w) ==
    /\ w \in {"single", "spread"}
    /\ sounds.have_sound
    /\ "shoot" \notin sounds.made

\* Game.input_play(dt)
InputPlay ==
    /\ pc = "input"
    /\ LET k == keys
           dir == MoveDir(k)
           dashing == "dash" \in k /\ player.dash_cd <= 0
           p1 == IF dashing
                 THEN [player EXCEPT
                         !.dash_cd = PLAYER_DASH_COOLDOWN,
                         !.x = @ + Quot(dir[1] * ((PLAYER_DASH_SPEED * 12) \div 100), 1000),
                         !.y = @ + Quot(dir[2] * ((PLAYER_DASH_SPEED * 12) \div 100), 1000)]
                 ELSE player
           p2 == [p1 EXCEPT
                    !.x = clamp(@ + Quot(dir[1] * Travel(p1.speed, dt), 1000),
                                20, WIDTH - 20),
                    !.y = clamp(@ + Quot(dir[2] * Travel(p1.speed, dt), 1000),
                                20, HEIGHT - 20)]
           p3 == IF "q" \in k THEN switch_weapon(p2, -1) ELSE p2
           p4 == IF "e" \in k THEN switch_weapon(p3, 1) ELSE p3
           bomb == BombFires(k, p4, now, last_bomb)
           p5 == IF bomb
                 THEN BombPlayer(enemies, [p4 EXCEPT !.bombs = @ - 1])
                 ELSE p4
           w == Weapons[p5.weapon_index + 1]
           fire == "shoot" \in k /\ p5.bullets_cool <= 0
           p6 == IF fire THEN [p5 EXCEPT !.bullets_cool = FireRate(w, p5)] ELSE p5
       IN  /\ player' = p6
           /\ enemies' = IF bomb THEN BombSurvivors(enemies, p4) ELSE enemies
           /\ audit' = IF bomb
                       THEN LET n == DeadInRange(enemies, p4)
                            IN  [audit EXCEPT !.dead_removed = @ + n,
                                              !.rewarded = @ + n]
                       ELSE audit
           /\ last_bomb' = IF bomb THEN now ELSE last_bomb
           /\ bullets' = IF fire THEN bullets \o ShotBullets(w, p5) ELSE bullets
           /\ lasers' = IF fire THEN lasers \o ShotLasers(w, p5) ELSE lasers
           /\ pc' = IF fire /\ ShootSoundRaises(w) THEN "crashed" ELSE "physics"
    /\ UNCHANGED <<state, running, wave, wave_state, interlude_time,
                   spawn_timer, difficulty, meta_vars, clock_vars, tick_vars,
                   powerups, sel, file, sounds>>

\* --------------------------------------------------------- update_physics
\* Player.update(dt): the four cooldowns count down, floored at zero.
PlayerUpdate(p, d) ==
    [p EXCEPT !.dash_cd = Max(0, @ - d),
              !.bullets_cool = Max(0, @ - d),
              !.rapid = Max(0, @ - d),
              !.shield = Max(0, @ - d)]

\* Bullet.update(dt) and Bullet.alive()
BulletUpdate(b, d) ==
    [b EXCEPT !.x = @ + Travel(b.vx, d), !.y = @ + Travel(b.vy, d)]
\* A bullet that lives until it is 150 px off the screen.
BulletAlive_Wide(b) ==
    /\ -150 < b.x /\ b.x < WIDTH + 150
    /\ -150 < b.y /\ b.y < HEIGHT + 150
BulletAlive(b) ==
    /\ -50 < b.x /\ b.x < WIDTH + 50
    /\ -50 < b.y /\ b.y < HEIGHT + 50
MoveBullets(bs, d) ==
    SelectSeq([i \in 1..Len(bs) |-> BulletUpdate(bs[i], d)], BulletAlive)

\* LaserBeam.alive() filters the list, then LaserBeam.update(dt) ages the rest.
LaserAlive(l) == l.t < l.life
UpdateLasers(ls, d) ==
    LET live == SelectSeq(ls, LaserAlive)
    IN  [i \in 1..Len(live) |-> [live[i] EXCEPT !.t = @ + d]]

\* (dx/d) * len in whole pixels, d = hypot(dx, dy) + 1e-6.
Along(dx, dist, len) == IF dist = 0 THEN 0 ELSE Quot(dx * len, dist)

\* The angle self.t * 4 radians in whole degrees (t in milliseconds).
ZigAngle(t) == (t * 2292) \div 10000

\* Enemy.update(dt, player, bullets): the enemy after the call and the
\* bullets it appended.
EnemyUpdate(e, p, d) ==
    LET t1 == e.t + d
        dx == p.x - e.x
        dy == p.y - e.y
        dist == hypot(dx, dy)
        cool1 == e.cool - d
        moved ==
          CASE e.kind = "chaser" ->
                 [e EXCEPT !.t = t1,
                           !.x = @ + Along(dx, dist, Travel(e.speed, d)),
                           !.y = @ + Along(dy, dist, Travel(e.speed, d))]
            [] e.kind = "zig" ->
                 LET fwd == Quot(e.speed * 9 * d, 10000)
                     wob == Quot(SinDeg(ZigAngle(t1)) * 8 * d, 10000000)
                 IN  [e EXCEPT !.t = t1,
                               !.x = @ + Along(dx, dist, fwd) + Along(-dy, dist, wob),
                               !.y = @ + Along(dy, dist, fwd) + Along(dx, dist, wob)]
            [] e.kind = "shooter" ->
                 LET fwd == Quot(e.speed * 6 * d, 10000)
                 IN  [e EXCEPT !.t = t1,
                               !.x = @ + Along(dx, dist, fwd),
                               !.y = @ + Along(dy, dist, fwd),
                               !.cool = IF cool1 <= 0
                                        THEN 900 - Min(500, e.level * 30)
                                        ELSE cool1]
            [] e.kind = "boss" ->
                 [e EXCEPT !.t = t1,
                           !.cool = IF cool1 <= 0 THEN 350 ELSE cool1]
        shots ==
          CASE e.kind = "shooter" /\ cool1 <= 0 ->
                 << Bullet(moved.x, moved.y,
                           Along(dx, dist, (BULLET_SPEED * 6) \div 10),
                           Along(dy, dist, (BULLET_SPEED * 6) \div 10),
                           "enemy", 8, 4) >>
            [] e.kind = "boss" /\ cool1 <= 0 ->
                 [i \in 1..12 |->
                    LET deg == (i - 1) * 30 + (((t1 * 40) \div 1000) % 360)
                    IN  Bullet(moved.x, moved.y,
                               Quot(CosDeg(deg) * 200, 1000),
                               Quot(SinDeg(deg) * 200, 1000),
                               "enemy", 10, 5)]
            [] OTHER -> <<>>
    IN  [e |-> [moved EXCEPT !.x = clamp(@, -100, WIDTH + 100),
                             !.y = clamp(@, -100, HEIGHT + 100)],
         shots |-> shots]

\* The reward of the dead-enemy branch.
KillScore(e) == 10 + e.level * 3
KillCoins(e) == 1 + (e.level \div 2)

\* The loop "for e in list(self.enemies)": each enemy updates, and one that
\* ends with hp <= 0 is removed, rewarded and may drop a power-up.
\* a = [enemies, bullets, player, powerups, cur]: the lists as built so far.
RECURSIVE EnemyPass(_, _, _, _, _)
EnemyPass(es, i, a, d, tp) ==
    IF i > Len(es) THEN a
    ELSE LET u == EnemyUpdate(es[i], a.player, d)
             bs == a.bullets \o u.shots
         IN  IF u.e.hp <= 0
             THEN LET drop == RandomLess(Draw(tp, a.cur), 18)
                      kind == Choice(PowerupKinds, Draw(tp, a.cur + 1))
                  IN  EnemyPass(es, i + 1,
                        [enemies |-> a.enemies,
                         bullets |-> bs,
                         player |-> [a.player EXCEPT
                                       !.score = @ + KillScore(u.e),
                                       !.coins = @ + KillCoins(u.e)],
                         powerups |-> IF drop
                                      THEN Append(a.powerups,
                                             [x |-> u.e.x, y |-> u.e.y,
                                              type |-> kind, t |-> 0])
                                      ELSE a.powerups,
                         cur |-> IF drop THEN a.cur + 2 ELSE a.cur + 1],
                        d, tp)
             ELSE EnemyPass(es, i + 1,
                    [a EXCEPT !.enemies = Append(@, u.e), !.bullets = bs],
                    d, tp)

\* Circle overlap, as the squared distance against the squared radius sum.
Overlap(x1, y1, x2, y2, rsum) ==
    (x1 - x2) * (x1 - x2) + (y1 - y2) * (y1 - y2) <= rsum * rsum

\* The index of the first enemy of es that bullet b overlaps, 0 if none.
FirstHit(es, b) ==
    LET hit == {j \in 1..Len(es) :
                   Overlap(es[j].x, es[j].y, b.x, b.y, es[j].r + b.r)}
    IN  IF hit = {} THEN 0 ELSE CHOOSE j \in hit : \A k \in hit : j <= k

\* A bullet loop in which a player bullet that hits stays in the list.
RECURSIVE BulletPass_KeepHit(_, _, _)
BulletPass_KeepHit(bs, i, a) ==
    IF i > Len(bs) THEN a
    ELSE LET b == bs[i]
         IN  IF b.owner = "player"
             THEN LET j == FirstHit(a.enemies, b)
                  IN  IF j = 0
                      THEN BulletPass_KeepHit(bs, i + 1,
                             [a EXCEPT !.bullets = Append(@, b)])
                      ELSE BulletPass_KeepHit(bs, i + 1,
                             [a EXCEPT !.enemies[j].hp = @ - b.dmg * 1000,
                                       !.bullets = Append(@, b)])
             ELSE IF Overlap(a.player.x, a.player.y, b.x, b.y, PLAYER_R + b.r)
                  THEN BulletPass_KeepHit(bs, i + 1,
                         [a EXCEPT !.player.hp =
                             IF a.player.shield <= 0 THEN @ - b.dmg ELSE @])
                  ELSE BulletPass_KeepHit(bs, i + 1,
                         [a EXCEPT !.bullets = Append(@, b)])

\* The loop "for b in list(self.bullets)".
\* a = [enemies, bullets, player]: bullets holds the bullets that stay.
RECURSIVE BulletPass(_, _, _)
BulletPass(bs, i, a) ==
    IF i > Len(bs) THEN a
    ELSE LET b == bs[i]
         IN  IF b.owner = "player"
             THEN LET j == FirstHit(a.enemies, b)
                  IN  IF j = 0
                      THEN BulletPass(bs, i + 1, [a EXCEPT !.bullets = Append(@, b)])
                      ELSE BulletPass(bs, i + 1,
                             [a EXCEPT !.enemies[j].hp = @ - b.dmg * 1000])
             ELSE IF Overlap(a.player.x, a.player.y, b.x, b.y, PLAYER_R + b.r)
                  THEN BulletPass(bs, i + 1,
                         [a EXCEPT !.player.hp =
                             IF a.player.shield <= 0 THEN @ - b.dmg ELSE @])
                  ELSE BulletPass(bs, i + 1, [a EXCEPT !.bullets = Append(@, b)])

\* The beam's test: the distance from the enemy's centre to the line through
\* (x1, y1) and (x2, y2) is at most e.r + 4.
LaserHits(l, e) ==
    LET x1 == l.x
        y1 == l.y
        x2 == l.x + l.dx * 2000
        y2 == l.y + l.dy * 2000
        num == Abs((y2 - y1) * e.x - (x2 - x1) * e.y + x2 * y1 - y2 * x1)
        den == hypot(y2 - y1, x2 - x1)
    IN  num <= (e.r + 4) * den

\* The damage all live beams do to enemy e in a tick of d milliseconds.
RECURSIVE LaserDamage(_, _, _)
LaserDamage(ls, e, d) ==
    IF ls = <<>> THEN 0
    ELSE (IF LaserHits(Head(ls), e) THEN Head(ls).dmg * d * 8 ELSE 0)
         + LaserDamage(Tail(ls), e, d)

LaserPass(ls, es, d) ==
    [j \in 1..Len(es) |-> [es[j] EXCEPT !.hp = @ - LaserDamage(ls, es[j], d)]]

\* Body contact of enemy e with the player.
Touches(e, p) == Overlap(e.x, e.y, p.x, p.y, e.r + PLAYER_R)

ContactEnemies(es, p) == SelectSeq(es, LAMBDA e : ~Touches(e, p))

\* How many of the enemies the contact pass removes have hp <= 0.
DeadTouching(es, p) ==
    Len(SelectSeq(es, LAMBDA e : Touches(e, p) /\ e.hp <= 0))
\* A contact pass that takes the damage with the shield up.
ContactPlayer_NoShield(es, p) ==
    [p EXCEPT !.hp = @ - CONTACT_DAMAGE * (Len(es) - Len(ContactEnemies(es, p)))]

ContactPlayer(es, p) ==
    LET n == Len(es) - Len(ContactEnemies(es, p))
    IN  IF p.shield <= 0 THEN [p EXCEPT !.hp = @ - CONTACT_DAMAGE * n] ELSE p

\* The end of update_physics: the contact pass over the enemies es3 that the
\* earlier passes left, with a1 the result of the enemy pass, ls the beams and
\* a2 the result of the bullet pass.
PhysicsContact(a1, ls, a2, es3) ==
    /\ player' = ContactPlayer(es3, a2.player)
    /\ enemies' = ContactEnemies(es3, a2.player)
    /\ bullets' = a2.bullets
    /\ lasers' = ls
    /\ powerups' = a1.powerups
    /\ cur' = a1.cur
    /\ audit' =
         LET dead == Len(enemies) - Len(a1.enemies)
             touched == DeadTouching(es3, a2.player)
         IN  [audit EXCEPT !.dead_removed = @ + dead + touched,
                           !.rewarded = @ + dead]

\* The laser pass and what follows it.
PhysicsLasers(a1, ls, a2) ==
    PhysicsContact(a1, ls, a2, LaserPass(ls, a2.enemies, dt))

\* The bullet pass and what follows it.
PhysicsBullets(a1, ls) ==
    PhysicsLasers(a1, ls,
        BulletPass(a1.bullets, 1,
            [enemies |-> a1.enemies, bullets |-> <<>>, player |-> a1.player]))

\* Game.update_physics(dt)
UpdatePhysics ==
    /\ pc = "physics"
    /\ PhysicsBullets(
         EnemyPass(enemies, 1,
            [enemies |-> <<>>, bullets |-> MoveBullets(bullets, dt),
             player |-> PlayerUpdate(player, dt), powerups |-> powerups,
             cur |-> cur],
            dt, tape),
         UpdateLasers(lasers, dt))
    /\ pc' = "powerups"
    /\ UNCHANGED <<state, running, wave, wave_state, interlude_time,
                   spawn_timer, difficulty, meta_vars, clock_vars, keys, tape,
                   last_bomb, sel, file, sounds>>

\* -------------------------------------------------------- update_powerups
\* The effect of picking up a power-up of type k.
Pickup(p, k) ==
    CASE k = "heal" -> [p EXCEPT !.hp = clamp(@ + 40, 0, p.maxhp)]
      [] k = "rapid" -> [p EXCEPT !.rapid = BUFF_TIME]
      [] k = "shield" -> [p EXCEPT !.shield = BUFF_TIME]
      [] k = "bomb" -> [p EXCEPT !.bombs = clamp(@ + 1, 0, BOMB_CAP)]
      [] k = "coin" -> [p EXCEPT !.coins = @ + 5]

\* A pickup loop that applies the effect and leaves the power-up in the list.
RECURSIVE PowerupPass_KeepPicked(_, _, _, _)
PowerupPass_KeepPicked(ps, i, a, d) ==
    IF i > Len(ps) THEN a
    ELSE LET q == [ps[i] EXCEPT !.y = @ + Travel(40, d), !.t = @ + d]
         IN  IF Overlap(q.x, q.y, a.player.x, a.player.y, PLAYER_R + PICKUP_R)
             THEN PowerupPass_KeepPicked(ps, i + 1,
                    [powerups |-> Append(a.powerups, q),
                     player |-> Pickup(a.player, q.type)], d)
             ELSE IF q.y > HEIGHT + 40
                  THEN PowerupPass_KeepPicked(ps, i + 1, a, d)
                  ELSE PowerupPass_KeepPicked(ps, i + 1,
                         [a EXCEPT !.powerups = Append(@, q)], d)

\* The loop "for p in list(self.powerups)".
\* a = [powerups, player]: powerups holds the ones that stay.
RECURSIVE PowerupPass(_, _, _, _)
PowerupPass(ps, i, a, d) ==
    IF i > Len(ps) THEN a
    ELSE LET q == [ps[i] EXCEPT !.y = @ + Travel(40, d), !.t = @ + d]
         IN  IF Overlap(q.x, q.y, a.player.x, a.player.y, PLAYER_R + PICKUP_R)
             THEN PowerupPass(ps, i + 1,
                    [a EXCEPT !.player = Pickup(a.player, q.type)], d)
             ELSE IF q.y > HEIGHT + 40
                  THEN PowerupPass(ps, i + 1, a, d)
                  ELSE PowerupPass(ps, i + 1,
                         [a EXCEPT !.powerups = Append(@, q)], d)

\* Game.update_powerups(dt)
UpdatePowerups ==
    /\ pc = "powerups"
    /\ LET a == PowerupPass(powerups, 1,
                  [powerups |-> <<>>, player |-> player], dt)
       IN  /\ powerups' = a.powerups
           /\ player' = a.player
    /\ pc' = "wave"
    /\ UNCHANGED <<state, running, enemies, bullets, lasers, wave, wave_state,
                   interlude_time, spawn_timer, difficulty, meta_vars,
                   clock_vars, tick_vars, last_bomb, sel, audit, file, sounds>>

\* ----------------------------------------------- update_wave_and_spawning
\* Game.spawn_enemy_edge(kind=None, level): the enemy it appends, from the
\* four random numbers starting at the c-th of the tape.
EdgeEnemy(level, tp, c) ==
    LET side == Choice(Sides, Draw(tp, c))
        r2 == Draw(tp, c + 1)
        x == CASE side = "top" -> RandInt(50, WIDTH - 50, r2)
               [] side = "bottom" -> RandInt(50, WIDTH - 50, r2)
               [] side = "left" -> -40
               [] side = "right" -> WIDTH + 40
        y == CASE side = "top" -> -40
               [] side = "bottom" -> HEIGHT + 40
               [] side = "left" -> RandInt(50, HEIGHT - 50, r2)
               [] side = "right" -> RandInt(50, HEIGHT - 50, r2)
    IN  Enemy(x, y, WeightedKind(Draw(tp, c + 2)), level, Draw(tp, c + 3))

\* A wave size without the cap of 40.
WaveSize_Uncapped(w) == 4 + w * 2

\* The number of enemies spawn_wave spawns at the edges for wave w.
WaveSize(w) == Min(4 + w * 2, 40)

\* A boss joins wave w.
BossWave(w) == w % 5 = 0

\* Game.spawn_wave, for the wave counter w it has just incremented to: the
\* enemies it appends.
SpawnedWave(w, tp, c) ==
    LET n == WaveSize(w)
        edge == [i \in 1..n |-> EdgeEnemy(1 + (w \div 3), tp, c + 4 * (i - 1))]
    IN  IF BossWave(w)
        THEN Append(edge, Enemy(WIDTH \div 2, -120, "boss", 3 + (w \div 5),
                                Draw(tp, c + 4 * n)))
        ELSE edge

\* The spawn timer's reload: max(0.3, 1.2 / (1 + wave * 0.08)).
SpawnInterval(w) == Max(300, 120000 \div (100 + w * 8))

\* An active branch that does not end a boss wave.
WaveCleared_NotBossWave(es) == es = <<>> /\ wave % 5 # 0

\* The active branch finds no enemy alive.
WaveCleared(es) == es = <<>>

\* Game.update_wave_and_spawning(dt)
\* An interlude that ends only once the timer has gone below 0.
InterludeOver_Strict(t) == t < 0

\* The test that ends an interlude whose timer now reads t.
InterludeOver(t) == t <= 0

UpdateWave ==
    /\ pc = "wave"
    /\ IF wave_state = "interlude"
       THEN /\ interlude_time' = interlude_time - dt
            /\ IF InterludeOver(interlude_time - dt)
               THEN /\ wave_state' = "active"
                    /\ wave' = wave + 1
                    /\ difficulty' = 100 + (wave + 1) * 12
                    /\ enemies' = enemies \o SpawnedWave(wave + 1, tape, cur)
                    /\ cur' = cur + 4 * WaveSize(wave + 1)
                                  + (IF BossWave(wave + 1) THEN 1 ELSE 0)
               ELSE UNCHANGED <<wave_state, wave, difficulty, enemies, cur>>
            /\ UNCHANGED spawn_timer
       ELSE /\ wave_state = "active"
            /\ IF WaveCleared(enemies)
               THEN /\ wave_state' = "interlude"
                    /\ interlude_time' = NEXT_INTERLUDE
               ELSE UNCHANGED <<wave_state, interlude_time>>
            /\ IF spawn_timer - dt <= 0
               THEN /\ spawn_timer' = SpawnInterval(wave)
                    /\ IF RandomLess(Draw(tape, cur), 60)
                       THEN /\ enemies' = Append(enemies,
                                            EdgeEnemy(1 + (wave \div 2), tape, cur + 1))
                            /\ cur' = cur + 5
                       ELSE /\ cur' = cur + 1
                            /\ UNCHANGED enemies
               ELSE /\ spawn_timer' = spawn_timer - dt
                    /\ UNCHANGED <<enemies, cur>>
            /\ UNCHANGED <<wave, difficulty>>
    /\ pc' = "death"
    /\ UNCHANGED <<state, running, player, bullets, lasers, meta_vars,
                   clock_vars, keys, tape, powerups, last_bomb, sel, audit, file, sounds>>

\* The death check that ends the play branch of run().
\* A death that records the run's score whatever the hi-score was.
NewHiscore_Overwrite(h, score) == IF score >= 0 THEN score ELSE h

\* The hi-score after a death with this score.
NewHiscore(h, score) == IF score > h THEN score ELSE h

DeathCheck ==
    /\ pc = "death"
    /\ IF player.hp <= 0
       THEN /\ hiscore' = NewHiscore(hiscore, player.score)
            /\ state' = "gameover"
       ELSE UNCHANGED <<hiscore, state>>
    /\ pc' = "cap"
    /\ UNCHANGED <<running, run_vars, persist_upgrades, clock_vars, tick_vars,
                   powerups, last_bomb, sel, audit, file, sounds>>

\* ------------------------------------------------------------ the program
\* What the world does during one iteration: the time that passes, the keys
\* held, the random numbers drawn.  SpawnLow puts every enemy of a wave at
\* the bottom edge below the screen's middle; SpawnExtra does the same for
\* the enemy the spawn timer injects.
SpawnLow == <<30, 50, 0, 0>>
SpawnExtra == <<0, 30, 50, 0, 0>>
Inputs ==
    { [dt |-> 4000, keys |-> {"down"}, tape |-> SpawnLow],
      [dt |-> 500, keys |-> {}, tape |-> SpawnExtra],
      [dt |-> 500, keys |-> {"bomb"}, tape |-> SpawnExtra],
      [dt |-> 4000, keys |-> {"bomb"}, tape |-> SpawnExtra] }
\* How long a wait inside a blocking screen (shop, how-to) can take.
Waits == {4000}

Next ==
    \/ \E e \in Events : RunEvent(e)
    \/ Dispatch
    \/ \E in \in Inputs : ClockTick(in)
    \/ \E e \in Events : MenuEvent(e)
    \/ MenuDone
    \/ \E e \in Events, d \in Waits : HowtoEvent(e, d)
    \/ \E e \in Events : GameoverEvent(e)
    \/ GameoverDone
    \/ \E e \in Events : ShopEvent(e)
    \/ \E d \in Waits : ShopPass(d)
    \/ InputPlay
    \/ UpdatePhysics
    \/ UpdatePowerups
    \/ UpdateWave
    \/ DeathCheck

Spec == Init /\ [][Next]_vars

-----------------------------------------------------------------------------
\* Play, picked up in the middle of a run.  The initial states of the
\* specifications below are ends of loop iterations that runs reach later
\* than the first specification follows them: a wave number up to MaxWave, an
\* enemy one step from the player, enemies around the bomb radius, a power-up
\* falling onto the player, an enemy still in the list after a shot took its
\* hp below 0.

RunFrames == 2
MaxWave == 20

\* The player at the start position, with what the run has changed so far.
MidPlayer(hp, weapon, bombs) ==
    [Player(WIDTH \div 2, (HEIGHT * 7) \div 10) EXCEPT
        !.hp = hp, !.weapon_index = weapon, !.bombs = bombs]

\* An enemy of wave w at an offset from the start position, with hp left.
Near(kind, w, hp, dx, dy) ==
    [Enemy(WIDTH \div 2 + dx, (HEIGHT * 7) \div 10 + dy, kind, 1 + (w \div 3), 50)
        EXCEPT !.hp = hp]

Sit(p, es, ps, w, ws, it, st) ==
    [player |-> p, enemies |-> es, powerups |-> ps, wave |-> w,
     wave_state |-> ws, interlude_time |-> it, spawn_timer |-> st]

\* A level-1 chaser (26 hp, or 2 hp after two single shots) 35 px above the
\* player, an optional heal power-up 30 px above, and a player with 12, 18 or
\* all 120 hp holding the single gun or the laser.
CombatSituations ==
    { Sit(MidPlayer(hp, w, 2), <<Near("chaser", 1, ehp, 0, -35)>>, ps,
          1, "active", 0, 1000) :
        hp \in {12, 18, 120}, w \in {0, 2}, ehp \in {26000, 2000},
        ps \in { <<>>, <<[x |-> WIDTH \div 2, y |-> (HEIGHT * 7) \div 10 - 30,
                          type |-> "heal", t |-> 2000]>> } }

\* Offsets at distance 60, exactly 180, and just over 180.
RingOffsets == { <<60, 0>>, <<108, 144>>, <<109, 144>>, <<-180, 0>>, <<0, 181>> }

\* Two enemies around the bomb radius; the first may have been shot to -10 hp
\* in the collision pass of the tick before.
BombSituations ==
    { Sit(MidPlayer(120, 0, b),
          <<Near("chaser", 1, h, o[1], o[2]), Near("chaser", 1, 26000, 0, dy)>>,
          <<>>, 1, "active", 0, 1000) :
        b \in {0, 2}, h \in {26000, -10000},
        o \in RingOffsets, dy \in {-180, -181} }

\* Wave w is about to start, or its last enemy is about to touch the player
\* while the spawn timer runs out.
WaveSituations ==
    { Sit(MidPlayer(120, 0, 2), <<>>, <<>>, w, "interlude", 100, 1000) :
        w \in 0..MaxWave }
    \cup
    { Sit(MidPlayer(120, 0, 2), <<Near("chaser", w, 1000 * (20 + 6 * (1 + (w \div 3))), 0, -35)>>,
          <<>>, w, "active", 0, 50) :
        w \in 1..MaxWave }

\* The end of a loop iteration in situation s.
MidRunWith(s, h, f, a) ==
        /\ state = "play"
        /\ running = TRUE
        /\ player = s.player
        /\ enemies = s.enemies
        /\ bullets = <<>>
        /\ lasers = <<>>
        /\ powerups = s.powerups
        /\ wave = s.wave
        /\ wave_state = s.wave_state
        /\ interlude_time = s.interlude_time
        /\ spawn_timer = s.spawn_timer
        /\ difficulty = 100 + s.wave * 12
        /\ hiscore = h
        /\ persist_upgrades = EmptyMap
        /\ last_bomb = 0
        /\ now = StartTime
        /\ last_time = StartTime
        /\ dt = 100
        /\ keys = {}
        /\ tape = <<0>>
        /\ cur = 0
        /\ sel = 0
        /\ pc = "cap"
        /\ frames = f
        /\ audit = [dead_removed |-> 0, rewarded |-> 0, screen |-> "play",
                    dt_idle |-> 0]
        /\ file = NoFile
        /\ sounds = a

MidRunAt(s, h, f) == MidRunWith(s, h, f, WorkingAudio)

MidRun(s) == MidRunAt(s, 0, MaxFrames - RunFrames)

InitRun == \E s \in CombatSituations \cup BombSituations : MidRun(s)

InitWave == \E s \in WaveSituations : MidRun(s)

TapeA == <<0, 30, 50, 0>>
TapeB == <<70, 10, 90, 40, 20>>

\* Ticks of 0.1 s.
RunInputs ==
    { [dt |-> 100, keys |-> {}, tape |-> TapeA],
      [dt |-> 100, keys |-> {}, tape |-> TapeB],
      [dt |-> 100, keys |-> {"shoot"}, tape |-> TapeA],
      [dt |-> 100, keys |-> {"bomb"}, tape |-> TapeB],
      [dt |-> 100, keys |-> {"bomb", "left"}, tape |-> TapeA],
      [dt |-> 100, keys |-> {"up"}, tape |-> TapeB] }

NextRun ==
    \/ \E in \in RunInputs : ClockTick(in)
    \/ Dispatch
    \/ InputPlay
    \/ UpdatePhysics
    \/ UpdatePowerups
    \/ UpdateWave
    \/ DeathCheck

SpecRun == InitRun /\ [][NextRun]_vars

\* A third specification: the same loop around the start and the end of a
\* wave.
WaveInputs ==
    { [dt |-> 100, keys |-> {}, tape |-> TapeA],
      [dt |-> 100, keys |-> {"shoot"}, tape |-> TapeB] }

NextWave ==
    \/ \E in \in WaveInputs : ClockTick(in)
    \/ Dispatch
    \/ InputPlay
    \/ UpdatePhysics
    \/ UpdatePowerups
    \/ UpdateWave
    \/ DeathCheck

SpecWave == InitWave /\ [][NextWave]_vars

\* A fourth specification: the same loop around pickups and the shield.
\* The player has 60 hp, a shield that is off, on, or runs out during the
\* next tick, and 2, 5, 6 or 7 bombs (7 after five purchases of "Extra
\* Bomb"); one chaser is about to touch the player or still far away; up to
\* two power-ups fall 30 px above the player or 150 px above it.
PowerupAt(k, dy) ==
    [x |-> WIDTH \div 2, y |-> (HEIGHT * 7) \div 10 + dy, type |-> k, t |-> 2000]

FallingPowerups ==
    { <<>> }
    \cup { <<PowerupAt(k, -30)>> : k \in {"heal", "rapid", "shield", "bomb", "coin"} }
    \cup { <<PowerupAt(k1, -30), PowerupAt(k2, dy)>> :
             k1 \in {"heal", "rapid", "shield", "bomb", "coin"},
             k2 \in {"heal", "rapid", "shield", "bomb", "coin"},
             dy \in {-30, -150} }

BuffSituations ==
    { Sit([MidPlayer(60, 0, b) EXCEPT !.shield = sh],
          <<Near("chaser", 1, 26000, 0, edy)>>, ps, 1, "active", 0, 1000) :
        b \in {2, 5, 6, 7}, sh \in {0, 50, 3000}, edy \in {-35, -300},
        ps \in FallingPowerups }

InitBuff == \E s \in BuffSituations : MidRun(s)

BuffInputs ==
    { [dt |-> 100, keys |-> {}, tape |-> TapeA],
      [dt |-> 100, keys |-> {"up"}, tape |-> TapeB] }

NextBuff ==
    \/ \E in \in BuffInputs : ClockTick(in)
    \/ Dispatch
    \/ InputPlay
    \/ UpdatePhysics
    \/ UpdatePowerups
    \/ UpdateWave
    \/ DeathCheck

SpecBuff == InitBuff /\ [][NextBuff]_vars

-----------------------------------------------------------------------------
\* ------------------------------------------------------ run after run
\* A run in wave 1 with a chaser touching the player, who has 12 hp (the
\* contact kills) or all 120, a score of 0, 30 or 70 against a hi-score of 0
\* or 40, and power-ups on the screen; then the game-over screen or the M
\* key, the menu, and the next run.
RunsFrames == 3
RunsSituations ==
    { Sit([MidPlayer(hp, 0, 2) EXCEPT !.score = sc],
          <<Near("chaser", 1, 26000, 0, -35)>>, ps, 1, "active", 0, 1000) :
        hp \in {12, 120}, sc \in {0, 30, 70},
        ps \in { <<>>, <<PowerupAt("heal", -150)>>,
                 <<PowerupAt("coin", -150), PowerupAt("shield", -300)>> } }

InitRuns ==
    \E s \in RunsSituations, h \in {0, 40} :
        MidRunAt(s, h, MaxFrames - RunsFrames)

NextRuns ==
    \/ \E in \in BuffInputs : ClockTick(in)
    \/ \E e \in Events : RunEvent(e)
    \/ Dispatch
    \/ \E e \in Events : MenuEvent(e)
    \/ MenuDone
    \/ \E e \in Events : GameoverEvent(e)
    \/ GameoverDone
    \/ InputPlay
    \/ UpdatePhysics
    \/ UpdatePowerups
    \/ UpdateWave
    \/ DeathCheck

SpecRuns == InitRuns /\ [][NextRuns]_vars

\* ------------------------------------------------------ audio outcomes
\* A run in wave 1 under every outcome of init_audio: each of the three
\* weapons selected, two bombs, a chaser within the bomb's radius and a
\* power-up that falls into reach; the keys fire, bomb, or do nothing.
AudioSituations ==
    { Sit(MidPlayer(120, w, 2), <<Near("chaser", 1, 26000, 0, -100)>>,
          <<PowerupAt(k, -30)>>, 1, "active", 0, 1000) :
        w \in 0..2, k \in {"coin", "heal"} }

InitAudio ==
    \E s \in AudioSituations, a \in AudioOutcomes :
        MidRunWith(s, 0, MaxFrames - RunFrames, a)

AudioInputs ==
    { [dt |-> 100, keys |-> {}, tape |-> TapeA],
      [dt |-> 100, keys |-> {"shoot"}, tape |-> TapeA],
      [dt |-> 100, keys |-> {"bomb"}, tape |-> TapeB] }

NextAudio ==
    \/ \E in \in AudioInputs : ClockTick(in)
    \/ Dispatch
    \/ InputPlay
    \/ UpdatePhysics
    \/ UpdatePowerups
    \/ UpdateWave
    \/ DeathCheck

SpecAudio == InitAudio /\ [][NextAudio]_vars

\* ------------------------------------------------------------ laser beams
\* A run in wave 1 with the laser selected and two chasers (full hp) each
\* at one of these offsets from the player: straight ahead, ahead at the
\* edge of the beam's reach (16 px) and just outside it, and behind the
\* player, in line with the beam and off it.  The beam starts 10 px above
\* the player and points up.
LaserOffsets ==
    { <<0, -200>>, <<16, -200>>, <<17, -200>>, <<-60, -120>>,
      <<0, 100>>, <<-14, 150>>, <<40, 100>> }
LaserSituations ==
    { Sit(MidPlayer(120, 2, 2),
          <<Near("chaser", 1, 26000, o1[1], o1[2]),
            Near("chaser", 1, 26000, o2[1], o2[2])>>,
          <<>>, 1, "active", 0, 1000) :
        o1 \in LaserOffsets, o2 \in LaserOffsets }

InitLaser == \E s \in LaserSituations : MidRun(s)

LaserInputs ==
    { [dt |-> 100, keys |-> {"shoot"}, tape |-> TapeA],
      [dt |-> 100, keys |-> {}, tape |-> TapeB] }

NextLaser ==
    \/ \E in \in LaserInputs : ClockTick(in)
    \/ Dispatch
    \/ InputPlay
    \/ UpdatePhysics
    \/ UpdatePowerups
    \/ UpdateWave
    \/ DeathCheck

SpecLaser == InitLaser /\ [][NextLaser]_vars

\* ---------------------------------------------------------------- bullets
\* A run in wave 1 with the single gun or the spread gun and two chasers,
\* each with full hp or 2 hp, at these offsets from the player: where the
\* bullet of the first shot is at the collision pass (88 px up), beside that
\* point so that one bullet overlaps both chasers or one chaser overlaps two
\* bullets of a spread, and out of the way.
BulletOffsets ==
    { <<0, -98>>, <<5, -98>>, <<15, -98>>, <<22, -95>>, <<0, -200>>,
      <<-60, -120>> }
BulletSituations ==
    { Sit(MidPlayer(120, w, 2),
          <<Near("chaser", 1, h1, o1[1], o1[2]),
            Near("chaser", 1, 26000, o2[1], o2[2])>>,
          <<>>, 1, "active", 0, 1000) :
        w \in {0, 1}, h1 \in {26000, 2000},
        o1 \in BulletOffsets, o2 \in BulletOffsets }

InitBullets == \E s \in BulletSituations : MidRun(s)

BulletInputs ==
    { [dt |-> 100, keys |-> {"shoot"}, tape |-> TapeA],
      [dt |-> 100, keys |-> {}, tape |-> TapeB] }

NextBullets ==
    \/ \E in \in BulletInputs : ClockTick(in)
    \/ Dispatch
    \/ InputPlay
    \/ UpdatePhysics
    \/ UpdatePowerups
    \/ UpdateWave
    \/ DeathCheck

SpecBullets == InitBullets /\ [][NextBullets]_vars

\* ------------------------------------------------------------------- boss
\* A run in wave 5 whose enemies are the wave's boss (level 4), just spawned
\* at y = -120 or already clamped to y = -100, with full hp or 4 hp, and
\* about to fire its burst or not; the player is straight below it, 20, 40
\* or 64 px from the top edge, or 30 px to the side, with any of the three
\* weapons.
BossAt(y, hp, cool) ==
    [Enemy(WIDTH \div 2, y, "boss", 4, 0) EXCEPT !.hp = hp, !.cool = cool]
BossSituations ==
    { Sit([MidPlayer(120, w, 2) EXCEPT !.x = WIDTH \div 2 + px, !.y = py],
          <<BossAt(by, hp, c)>>, <<>>, 5, "active", 0, 1000) :
        w \in 0..2, px \in {0, 30}, py \in {20, 40, 64},
        by \in {-120, -100}, hp \in {264000, 4000}, c \in {50, 1000} }

InitBoss == \E s \in BossSituations : MidRun(s)

BossInputs ==
    { [dt |-> 100, keys |-> {"shoot"}, tape |-> TapeA],
      [dt |-> 100, keys |-> {"shoot", "up"}, tape |-> TapeB],
      [dt |-> 100, keys |-> {"bomb"}, tape |-> TapeB] }

NextBoss ==
    \/ \E in \in BossInputs : ClockTick(in)
    \/ Dispatch
    \/ InputPlay
    \/ UpdatePhysics
    \/ UpdatePowerups
    \/ UpdateWave
    \/ DeathCheck

SpecBoss == InitBoss /\ [][NextBoss]_vars

\* ------------------------------------------------- save, then a new session
\* A session that is about to end, with any hi-score up to MaxHiscore and any
\* mapping of some of hp/speed/damage to a level up to MaxLevel, at each of
\* the three places that write the save file: the end of run(), QUIT in the
\* shop and QUIT on the game-over screen.  The next session then starts.
MaxHiscore == 120
MaxLevel == 2
UpgradeMaps ==
    UNION { [d -> 0..MaxLevel] : d \in SUBSET {"hp", "speed", "damage"} }
Endings ==
    { [state |-> "play", running |-> FALSE, pc |-> "cap"],
      [state |-> "shop", running |-> TRUE, pc |-> "shop"],
      [state |-> "gameover", running |-> TRUE, pc |-> "gameover"] }

InitSave ==
    \E h \in 0..MaxHiscore, u \in UpgradeMaps, end \in Endings :
        /\ state = end.state
        /\ running = end.running
        /\ pc = end.pc
        /\ hiscore = h
        /\ persist_upgrades = u
        /\ player = ResetPlayer(u)
        /\ enemies = <<>>
        /\ bullets = <<>>
        /\ lasers = <<>>
        /\ powerups = <<>>
        /\ wave = 0
        /\ spawn_timer = 0
        /\ wave_state = "interlude"
        /\ interlude_time = FIRST_INTERLUDE
        /\ difficulty = 100
        /\ last_bomb = 0
        /\ now = StartTime
        /\ last_time = StartTime
        /\ dt = 0
        /\ keys = {}
        /\ tape = <<0>>
        /\ cur = 0
        /\ sel = 0
        /\ frames = MaxFrames
        /\ audit = [dead_removed |-> 0, rewarded |-> 0, screen |-> end.state,
                    dt_idle |-> 0]
        /\ file = NoFile
        /\ sounds = WorkingAudio

\* Game.__init__ of the next session, up to the first pass of run(): the
\* program has exited; load_save reads the file and reset_run builds the run.
NewSession ==
    /\ pc = "exit"
    /\ hiscore' = LoadedHiscore(load_json(file))
    /\ persist_upgrades' = LoadedUpgrades(load_json(file))
    /\ player' = ResetPlayer(LoadedUpgrades(load_json(file)))
    /\ state' = "menu"
    /\ running' = TRUE
    /\ enemies' = <<>>
    /\ bullets' = <<>>
    /\ lasers' = <<>>
    /\ powerups' = <<>>
    /\ wave' = 0
    /\ spawn_timer' = 0
    /\ wave_state' = "interlude"
    /\ interlude_time' = FIRST_INTERLUDE
    /\ difficulty' = 100
    /\ last_time' = now
    /\ dt' = 0
    /\ sel' = 0
    /\ pc' = "events"
    /\ frames' = 0
    /\ sounds' \in AudioOutcomes
    /\ UNCHANGED <<last_bomb, now, tick_vars, audit, file>>

NextSave ==
    \/ \E in \in Inputs : ClockTick(in)
    \/ ShopEvent("QUIT")
    \/ GameoverEvent("QUIT")
    \/ NewSession

SpecSave == InitSave /\ [][NextSave]_vars

\* Screen transitions.

ListedTransitions ==
    { <<"menu", "play">>, <<"play", "pause">>, <<"pause", "play">>,
      <<"play", "shop">>, <<"shop", "play">>, <<"play", "gameover">>,
      <<"gameover", "menu">> }

MenuKeyTransitions ==
    { <<"play", "menu">>, <<"pause", "menu">>, <<"shop", "menu">> }

\* C1 as the specification states it: the screen changes only along the seven
\* listed transitions (menu to play, play to pause and back, play to shop and
\* back, play to gameover, gameover to menu).
C1_ListedOnly ==
    [][state' # state => <<state, state'>> \in ListedTransitions]_vars

\* C1, amended: the screen changes only along the seven listed transitions or
\* by the M key, which returns to the menu from play, from pause and from a
\* shop that was opened earlier in the same batch of events.
C1_ListedOrMenuKey ==
    [][state' # state =>
         <<state, state'>> \in ListedTransitions \cup MenuKeyTransitions]_vars

\* A menu reached from a lost run: play to gameover and gameover to menu have
\* both been taken.
C1_Witness == state = "menu" /\ pc = "gameover" /\ player.hp <= 0

-----------------------------------------------------------------------------
\* Player hit points.

\* C3: the player's hp is at least 0 and at most maxhp in every state.
C3_HpInRange == 0 <= player.hp /\ player.hp <= player.maxhp

-----------------------------------------------------------------------------
\* Shop purchases.

\* C5: pressing RETURN in the shop on an option that costs more than the
\* player's coins changes nothing of the player (coins, upgrade levels, bombs,
\* hp, maxhp) and nothing of the persisted upgrade levels.
C5_RejectedPurchase ==
    [][(pc = "shop" /\ ShopEvent("K_RETURN")
          /\ player.coins < ShopOpts[sel + 1][2])
         => (player' = player /\ persist_upgrades' = persist_upgrades)]_vars

\* The shop is open on an option the player has some coins for, but not enough.
C5_Witness ==
    /\ pc = "shop" /\ state = "shop"
    /\ player.coins > 0
    /\ player.coins < ShopOpts[sel + 1][2]

-----------------------------------------------------------------------------
\* The bomb command.

\* C7: the input step uses a bomb (count down by exactly 1, explosion at the
\* player's position, time of use recorded) exactly when the bomb key is held,
\* a bomb is left and more than 0.5 s passed since the last use; otherwise the
\* bomb count and the enemies are unchanged.  Two uses are more than 0.5 s
\* apart and the bomb count is never negative.
C7_BombCommand ==
    /\ [](player.bombs >= 0)
    /\ [][pc = "input" =>
            IF "bomb" \in keys /\ player.bombs > 0
                 /\ now - last_bomb > BOMB_INTERVAL
            THEN /\ player'.bombs = player.bombs - 1
                 /\ last_bomb' = now
                 /\ last_bomb' - last_bomb > BOMB_INTERVAL
                 /\ \A i \in 1..Len(enemies') :
                      (enemies'[i].x - player'.x) * (enemies'[i].x - player'.x)
                      + (enemies'[i].y - player'.y) * (enemies'[i].y - player'.y)
                        > BOMB_RADIUS * BOMB_RADIUS
            ELSE /\ player'.bombs = player.bombs
                 /\ enemies' = enemies
                 /\ last_bomb' = last_bomb]_vars

\* The bomb key is held with a bomb left, less than 0.5 s after a bomb went
\* off, and the input step has run.
C7_Witness ==
    /\ pc = "physics"
    /\ "bomb" \in keys
    /\ player.bombs > 0
    /\ last_bomb > StartTime
    /\ last_bomb < now
    /\ now - last_bomb <= BOMB_INTERVAL

-----------------------------------------------------------------------------
\* Wave phases.

\* C10: while the wave phase is interlude there is no enemy.
C10_InterludeEmpty == wave_state = "interlude" => enemies = <<>>

-----------------------------------------------------------------------------
\* Death.

\* C2: once damage has taken the player's hp to 0 or below during a tick, no
\* later step of the tick lifts it, and the tick's death check sets the screen
\* to gameover.
C2_LethalDamageEndsRun ==
    [][/\ (pc \in {"powerups", "wave"} /\ player.hp <= 0) => player'.hp <= 0
       /\ (pc = "death" /\ player.hp <= 0) => state' = "gameover"]_vars

-----------------------------------------------------------------------------
\* Rewards.

\* C4: every enemy removed with hp <= 0, by the dead pass, by contact with the
\* player or by a bomb, granted its reward, once.
C4_RewardOncePerKill == audit.dead_removed = audit.rewarded

-----------------------------------------------------------------------------
\* The bomb's blast.

SqDist(e, p) == (e.x - p.x) * (e.x - p.x) + (e.y - p.y) * (e.y - p.y)

\* C6: an input step that uses a bomb removes exactly the enemies within 180
\* of the player, leaves the others as they were and in order, and adds 15
\* score and 2 coins for each enemy removed.
C6_BombBlast ==
    [][(pc = "input" /\ player'.bombs = player.bombs - 1) =>
         LET far == SelectSeq(enemies,
                      LAMBDA e : SqDist(e, player') > BOMB_RADIUS * BOMB_RADIUS)
             n == Len(enemies) - Len(far)
         IN  /\ enemies' = far
             /\ player'.score = player.score + 15 * n
             /\ player'.coins = player.coins + 2 * n]_vars

\* A bomb has just gone off that removed one enemy and spared another, which
\* is 181 or less from the player.
C6_Witness ==
    /\ pc = "physics"
    /\ last_bomb = now
    /\ player.score = 15
    /\ Len(enemies) = 1
    /\ SqDist(enemies[1], player) <= (BOMB_RADIUS + 1) * (BOMB_RADIUS + 1)

-----------------------------------------------------------------------------
\* Waves.

NonBoss(es) == Len(SelectSeq(es, LAMBDA e : e.kind # "boss"))
Bosses(es) == Len(SelectSeq(es, LAMBDA e : e.kind = "boss"))

\* C8: the step that starts wave N appends min(4 + 2N, 40) non-boss enemies
\* and, exactly when N is a multiple of 5, one boss; the enemies already there
\* stay.
C8_WaveSpawn ==
    [][wave' # wave =>
         LET new == SubSeq(enemies', Len(enemies) + 1, Len(enemies'))
             cap == IF 4 + 2 * wave' < 40 THEN 4 + 2 * wave' ELSE 40
         IN  /\ wave' = wave + 1
             /\ SubSeq(enemies', 1, Len(enemies)) = enemies
             /\ NonBoss(new) = cap
             /\ Bosses(new) = IF wave' % 5 = 0 THEN 1 ELSE 0]_vars

\* Wave 20 has just been spawned: 40 enemies and a boss.
C8_Witness ==
    /\ pc = "death"
    /\ wave = 20
    /\ NonBoss(enemies) = 40
    /\ Bosses(enemies) = 1

\* C9: a scheduler step that finds the phase active and no enemy sets the
\* phase to interlude and the interlude timer to 6.0 s, whatever the wave.
C9_ClearedWave ==
    [][(pc = "wave" /\ wave_state = "active" /\ enemies = <<>>) =>
         (wave_state' = "interlude" /\ interlude_time' = 6000)]_vars

\* Wave 5 has just been cleared.
C9_Witness ==
    /\ pc = "death"
    /\ wave = 5
    /\ wave_state = "interlude"
    /\ interlude_time = 6000
    /\ frames > MaxFrames - RunFrames

-----------------------------------------------------------------------------
\* Pickups.

\* A power-up after the fall of one tick, and whether the player reaches it.
Fallen(q) == [q EXCEPT !.y = @ + (40 * dt) \div 1000, !.t = @ + dt]
InReach(q, p) == SqDist(q, p) <= (PLAYER_R + PICKUP_R) * (PLAYER_R + PICKUP_R)
PickedNow(k) ==
    Len(SelectSeq(powerups, LAMBDA q : InReach(Fallen(q), player) /\ Fallen(q).type = k))

\* C11: the power-up step removes every power-up the player reaches in the
\* same step (none within reach is left), applies a coin's effect once per
\* coin picked up, and changes nothing of the player when nothing is reached.
C11_PickedOnce ==
    [][pc = "powerups" =>
         LET reached == SelectSeq(powerups, LAMBDA q : InReach(Fallen(q), player))
         IN  /\ \A i \in 1..Len(powerups') : ~InReach(powerups'[i], player')
             /\ Len(powerups') <= Len(powerups) - Len(reached)
             /\ player'.coins = player.coins + 5 * PickedNow("coin")
             /\ reached = <<>> => player' = player]_vars

\* Two coins were picked up in one step: none is left and the player holds
\* exactly 10 coins.
C11_Witness ==
    /\ pc = "wave"
    /\ powerups = <<>>
    /\ player.coins = 10

\* C12: when the shield is up at the contact check, the physics step leaves
\* the player's hp as it was and no enemy that touches the player stays.
C12_ShieldedContact ==
    [][(pc = "physics" /\ player'.shield > 0) =>
         /\ player'.hp = player.hp
         /\ \A i \in 1..Len(enemies') :
              SqDist(enemies'[i], player') >
                (enemies'[i].r + PLAYER_R) * (enemies'[i].r + PLAYER_R)]_vars

\* The last enemy was removed on contact with the shield up: no reward, no
\* kill, no damage.
C12_Witness ==
    /\ pc = "powerups"
    /\ player.shield > 0
    /\ enemies = <<>>
    /\ player.score = 0
    /\ player.hp = 60

\* C20: a power-up step that picks up a bomb adds one to the bomb count when
\* it is below 6 and leaves it otherwise; it never lowers the count.
C20_BombPickup ==
    [][pc = "powerups" =>
         /\ player'.bombs >= player.bombs
         /\ (PickedNow("bomb") = 1 /\ player.bombs < BOMB_CAP)
              => player'.bombs = player.bombs + 1
         /\ (PickedNow("bomb") >= 1 /\ player.bombs >= BOMB_CAP)
              => player'.bombs = player.bombs]_vars

\* C13: saving the hi-score and the upgrade mapping and then loading them in
\* the next session yields the same hi-score and the same mapping, for every
\* hi-score and every mapping of hp/speed/damage to levels, the empty
\* mapping included.
C13_SaveLoadRoundTrip ==
    [][pc = "exit" =>
         /\ hiscore' = hiscore
         /\ persist_upgrades' = persist_upgrades]_vars
\* A session that started from a file holding a hi-score and an empty mapping.
C13_Witness ==
    /\ pc = "events"
    /\ file # NoFile
    /\ hiscore = MaxHiscore
    /\ persist_upgrades = EmptyMap

-----------------------------------------------------------------------------
\* The shop.

\* C15: the shop is entered only from play while the wave phase is
\* interlude, and whenever the screen is the shop the wave phase is interlude.
C15_ShopOnlyInInterlude ==
    [][/\ (state' = "shop" /\ state # "shop") =>
              (state = "play" /\ wave_state = "interlude")
       /\ state' = "shop" => wave_state' = "interlude"]_vars
\* The shop command worked: the shop's loop is running, in an interlude that
\* follows a cleared wave.
C15_Witness ==
    /\ pc = "shop" /\ state = "shop"
    /\ wave >= 1
    /\ wave_state = "interlude"

\* The stat of player p that an upgrade of kind key stands for.
UpgradeStat(p, key) ==
    CASE key = "hp" -> p.maxhp
      [] key = "speed" -> p.speed
      [] key = "damage" -> Get(p.upgrades, "damage")

\* C16: a successful purchase of a permanent upgrade (hp, speed or damage)
\* raises the persisted level of that upgrade by one and in the same step
\* changes the matching stat of the current player: max hp, movement speed,
\* weapon damage.
C16_PurchaseApplies ==
    [][(/\ pc = "shop"
        /\ player'.coins < player.coins
        /\ ShopOpts[sel + 1][1] \in {"hp", "speed", "damage"})
       => /\ Get(persist_upgrades', ShopOpts[sel + 1][1])
                = Get(persist_upgrades, ShopOpts[sel + 1][1]) + 1
          /\ UpgradeStat(player', ShopOpts[sel + 1][1])
                # UpgradeStat(player, ShopOpts[sel + 1][1])]_vars

-----------------------------------------------------------------------------
\* The start of a run.

\* C17: at the start of every run the player reflects the persisted upgrade
\* levels: max hp, movement speed, and the damage level that every weapon
\* adds to its damage.
C17_RunStartReflectsUpgrades ==
    [][(state = "menu" /\ state' = "play")
       => /\ player'.maxhp = PLAYER_MAX_HP + Get(persist_upgrades, "hp") * 20
          /\ player'.speed = PLAYER_BASE_SPEED + Get(persist_upgrades, "speed") * 30
          /\ Get(player'.upgrades, "damage") = Get(persist_upgrades, "damage")]_vars

\* C18: after every run reset (the start command in the menu) the four
\* entity containers are empty: enemies, bullets, lasers and power-ups.
C18_ResetEmptiesContainers ==
    [][(pc = "menu" /\ state = "menu" /\ state' = "play")
       => /\ enemies' = <<>>
          /\ bullets' = <<>>
          /\ lasers' = <<>>
          /\ powerups' = <<>>]_vars

-----------------------------------------------------------------------------
\* The hi-score.

\* C19: on entry to gameover the hi-score becomes the larger of the previous
\* hi-score and the run's score; no other step changes the hi-score, so it
\* never decreases.
C19_HiscoreOnGameover ==
    [][IF state # "gameover" /\ state' = "gameover"
       THEN hiscore' = Max(hiscore, player.score)
       ELSE hiscore' = hiscore]_vars
\* A run has just ended with a score above the hi-score, which it replaced.
C19_Witness ==
    /\ state = "gameover" /\ pc = "cap"
    /\ player.hp <= 0
    /\ player.score = 70
    /\ hiscore = 70

-----------------------------------------------------------------------------
\* Simulation time.

\* C14: simulation time advances only in play: the dt that a play tick
\* applies to the run's timers and entities holds no time that passed in the
\* menu, the how-to screen, pause, the shop or the game-over screen.
C14_OnlyPlayTime ==
    pc \in {"input", "physics", "powerups", "wave"} => audit.dt_idle = 0

-----------------------------------------------------------------------------
\* Audio.

\* C21: whatever the outcome of audio initialisation (no mixer, or a mixer
\* and some sound that could not be created), firing a weapon, using the
\* bomb and picking up a power-up complete without error.
C21_AudioNeverFails == pc # "crashed"

-----------------------------------------------------------------------------
\* Laser beams.

\* Enemy e is within e.r + 4 of the ray that starts at beam l's origin and
\* runs along its direction: of the line when e is ahead of the origin, of
\* the origin itself when e is behind it.
WithinRay(l, e) ==
    LET ex == e.x - l.x
        ey == e.y - l.y
        along == ex * l.dx + ey * l.dy
        across == ex * l.dy - ey * l.dx
        reach == (e.r + 4) * (e.r + 4)
    IN  IF along >= 0
        THEN across * across <= reach * (l.dx * l.dx + l.dy * l.dy)
        ELSE ex * ex + ey * ey <= reach

\* C22: in a collision pass that removes no enemy and has no bullets, a live
\* beam damages exactly the enemies within radius + 4 of its ray; an enemy
\* behind the origin and farther than that from it keeps its hp.
C22_LaserRay ==
    [][(pc = "physics" /\ bullets = <<>> /\ Len(enemies') = Len(enemies))
       => \A j \in 1..Len(enemies) :
            (enemies'[j].hp < enemies[j].hp)
              <=> \E n \in 1..Len(lasers') : WithinRay(lasers'[n], enemies'[j])]_vars

-----------------------------------------------------------------------------
\* The wave counter and the difficulty.

\* C23: within a run the wave counter changes only at an interlude->active
\* transition, where it goes up by exactly 1; the transition happens exactly
\* when the interlude timer, started at 4 s by the run reset and at 6 s by
\* every cleared wave, has counted down to 0 or below; and difficulty is
\* 1 + 0.12 * wave in every state.
C23_WaveCounter ==
    [][/\ (state = "menu" /\ state' = "play")
            => (wave' = 0 /\ wave_state' = "interlude"
                /\ interlude_time' = FIRST_INTERLUDE)
       /\ (wave_state = "active" /\ wave_state' = "interlude" /\ state' = state)
            => interlude_time' = NEXT_INTERLUDE
       /\ ~(state = "menu" /\ state' = "play")
            => /\ wave' # wave
                  => (wave' = wave + 1
                      /\ wave_state = "interlude" /\ wave_state' = "active")
               /\ (wave_state = "interlude" /\ wave_state' = "active")
                  => (wave' = wave + 1
                      /\ interlude_time' = interlude_time - dt
                      /\ interlude_time' <= 0)
               /\ (pc = "wave" /\ wave_state = "interlude"
                   /\ interlude_time' <= 0)
                  => wave_state' = "active"
       /\ difficulty' = 100 + 12 * wave']_vars
\* The second wave has just begun: its interlude, started at 6 s when the
\* first wave was cleared, has run out.
C23_Witness ==
    /\ pc = "death"
    /\ wave = 2 /\ wave_state = "active"
    /\ interlude_time <= 0
    /\ difficulty = 124

-----------------------------------------------------------------------------
\* Player projectiles.

\* Whether bullet b overlaps some enemy of es, and the sum of the damage of
\* the bullets of bs that do, in thousandths of a hit point.
HitsSome(b, es) ==
    \E j \in 1..Len(es) : Overlap(es[j].x, es[j].y, b.x, b.y, es[j].r + b.r)
RECURSIVE DamageOfHits(_, _)
DamageOfHits(bs, es) ==
    IF bs = <<>> THEN 0
    ELSE (IF HitsSome(Head(bs), es) THEN Head(bs).dmg * 1000 ELSE 0)
         + DamageOfHits(Tail(bs), es)
\* The hp that the enemies es0 have lost on becoming es1.
RECURSIVE HpLost(_, _)
HpLost(es0, es1) ==
    IF es0 = <<>> THEN 0
    ELSE (Head(es0).hp - Head(es1).hp) + HpLost(Tail(es0), Tail(es1))
\* The bullets of bs that overlap no enemy of es, in order.
RECURSIVE Missing(_, _)
Missing(bs, es) ==
    IF bs = <<>> THEN <<>>
    ELSE (IF HitsSome(Head(bs), es) THEN <<>> ELSE <<Head(bs)>>)
         \o Missing(Tail(bs), es)

\* C24: in a collision pass with player bullets only, no beam and no enemy
\* removed, every bullet that overlaps an enemy takes its damage from the hp
\* of one enemy and no more (the enemies lose, in total, one damage per such
\* bullet, and an enemy that no bullet overlaps loses nothing) and is gone
\* from the bullet list after the pass; the bullets that overlap no enemy
\* are the bullet list after the pass, unchanged.
C24_BulletHitsOnce ==
    [][(/\ pc = "physics"
        /\ lasers' = <<>>
        /\ Len(enemies') = Len(enemies)
        /\ \A i \in 1..Len(bullets) : bullets[i].owner = "player")
       => /\ bullets' = Missing(MoveBullets(bullets, dt), enemies')
          /\ HpLost(enemies, enemies')
                = DamageOfHits(MoveBullets(bullets, dt), enemies')
          /\ \A j \in 1..Len(enemies) :
                /\ enemies'[j].hp <= enemies[j].hp
                /\ (enemies'[j].hp < enemies[j].hp)
                      => HitsSome(enemies'[j], MoveBullets(bullets, dt))]_vars
\* One bullet met two chasers that stand 5 px apart: the first lost the
\* bullet's 12 hp, the second nothing, and the bullet is gone.
C24_Witness ==
    /\ pc = "powerups"
    /\ bullets = <<>>
    /\ Len(enemies) = 2
    /\ Abs(enemies[1].x - enemies[2].x) <= 5 /\ Abs(enemies[1].y - enemies[2].y) <= 5
    /\ enemies[1].hp = 14000
    /\ enemies[2].hp = 26000

-----------------------------------------------------------------------------
\* The hi-score and the persisted upgrade levels together.

\* C25: a run reset and every step of a play tick other than the death check
\* that enters gameover leave the hi-score and the persisted upgrade levels
\* as they are; the persisted levels change only in a successful purchase of
\* hp, speed or damage in the shop, the hi-score only on entry to gameover.
C25_MetaStateFrame ==
    [][/\ (state = "menu" /\ state' = "play")
            => UNCHANGED <<hiscore, persist_upgrades>>
       /\ (pc \in {"input", "physics", "powerups", "wave"})
            => UNCHANGED <<hiscore, persist_upgrades>>
       /\ (pc = "death" /\ state' # "gameover")
            => UNCHANGED <<hiscore, persist_upgrades>>
       /\ persist_upgrades' # persist_upgrades
            => /\ pc = "shop"
               /\ ShopOpts[sel + 1][1] \in {"hp", "speed", "damage"}
               /\ player.coins >= ShopOpts[sel + 1][2]
               /\ player'.coins = player.coins - ShopOpts[sel + 1][2]
               /\ hiscore' = hiscore
       /\ hiscore' # hiscore
            => /\ state = "play" /\ state' = "gameover"
               /\ persist_upgrades' = persist_upgrades]_vars
\* A run has just been reset while a hi-score and upgrade levels from an
\* earlier session are held.
C25_Witness ==
    /\ pc = "menu" /\ state = "play"
    /\ wave = 0 /\ player.score = 0
    /\ hiscore = 20
    /\ Get(persist_upgrades, "damage") = 1

-----------------------------------------------------------------------------
\* The boss.

\* The bosses of es, in list order.
BossSeq(es) == SelectSeq(es, LAMBDA e : e.kind = "boss")

\* What C26 says of one step, but for what it says of the bullets: the boss
\* stays at x = 500 and is at y = -100 after every pass of update_physics;
\* its hp goes down only in a pass with a live beam; and the number of
\* bosses goes down only by the bomb (the input step) or by the removal of a
\* boss whose hp a beam had taken to 0 or below.
BossSteps ==
    /\ pc = "physics"
         => \A j \in 1..Len(enemies') :
               enemies'[j].kind = "boss"
                 => (enemies'[j].x = WIDTH \div 2 /\ enemies'[j].y = -100)
    /\ (Bosses(enemies') = Bosses(enemies) /\ lasers' = <<>>)
         => \A j \in 1..Bosses(enemies) :
               BossSeq(enemies')[j].hp = BossSeq(enemies)[j].hp
    /\ Bosses(enemies') < Bosses(enemies)
         => \/ pc = "input" /\ player'.bombs < player.bombs
            \/ pc = "physics"
               /\ \E j \in 1..Bosses(enemies) : BossSeq(enemies)[j].hp <= 0

=============================================================================
